---------------------------- MODULE Spec2Model ----------------------------
(***************************************************************************)
(* Model of daily_report_line_bot.py: a linear script that reads its       *)
(* configuration from the process environment, fetches Facebook,           *)
(* Instagram and GA4 metrics, formats one text message and pushes it to    *)
(* the LINE push endpoint.                                                 *)
(*                                                                         *)
(* Python and JSON values are tagged records:                              *)
(*   [t |-> "null"]                      None / JSON null                   *)
(*   [t |-> "int",   v |-> n]            int                                *)
(*   [t |-> "float", num |-> a, den |-> b]  the float a/b                   *)
(*   [t |-> "bool",  b |-> TRUE]         bool (a subclass of int)           *)
(*   [t |-> "str",   s |-> <<"1","2">>]  str, as a sequence of characters   *)
(*   [t |-> "obj",   f |-> function]     dict / JSON object                 *)
(*   [t |-> "list",  items |-> seq]      list / JSON array                  *)
(*   [t |-> "raise"]                     an exception was raised            *)
(*   [t |-> "date",  year, month, day]   datetime.date                      *)
(* Fixed text (a label, a path) is one element of a str's sequence.        *)
(***************************************************************************)
EXTENDS Integers, Sequences, FiniteSets, TLC

---------------------------------------------------------------------------
(* Python values *)

None == [t |-> "null"]

Raise == [t |-> "raise"]

PInt(n) == [t |-> "int", v |-> n]

PFloat(a, b) == [t |-> "float", num |-> a, den |-> b]

PBool(b) == [t |-> "bool", b |-> b]

PStr(s) == [t |-> "str", s |-> s]

Obj(f) == [t |-> "obj", f |-> f]

List(items) == [t |-> "list", items |-> items]

EmptyObj == Obj(<<>>)

IsRaise(x) == x.t = "raise"

\* Python truth value, as used by `or` and `not`.
Truthy(x) ==
  CASE x.t = "null"  -> FALSE
    [] x.t = "int"   -> x.v # 0
    [] x.t = "float" -> x.num # 0
    [] x.t = "bool"  -> x.b
    [] x.t = "str"   -> x.s # <<>>
    [] x.t = "obj"   -> DOMAIN x.f # {}
    [] x.t = "list"  -> x.items # <<>>

\* a or b
PyOr(a, b) == IF Truthy(a) THEN a ELSE b

\* isinstance(x, (int, float)); bool is a subclass of int.
IsIntOrFloat(x) == x.t \in {"int", "float", "bool"}

DigitValue == [c \in {"0", "1", "2", "3", "4", "5", "6", "7", "8", "9"} |->
                 CASE c = "0" -> 0 [] c = "1" -> 1 [] c = "2" -> 2 [] c = "3" -> 3
                   [] c = "4" -> 4 [] c = "5" -> 5 [] c = "6" -> 6 [] c = "7" -> 7
                   [] c = "8" -> 8 [] c = "9" -> 9]

IsDigits(s) == s # <<>> /\ \A i \in 1..Len(s) : s[i] \in DOMAIN DigitValue

RECURSIVE DigitsValue(_)
DigitsValue(s) ==
  IF s = <<>> THEN 0
  ELSE 10 * DigitsValue(SubSeq(s, 1, Len(s) - 1)) + DigitValue[s[Len(s)]]

\* int(s) for a str: an optional sign and decimal digits, anything else is ValueError.
IntOfStr(s) ==
  IF s # <<>> /\ s[1] \in {"-", "+"}
  THEN IF IsDigits(Tail(s))
       THEN PInt(IF s[1] = "-" THEN -DigitsValue(Tail(s)) ELSE DigitsValue(Tail(s)))
       ELSE Raise
  ELSE IF IsDigits(s) THEN PInt(DigitsValue(s)) ELSE Raise

\* int(x): truncation toward zero for a float, TypeError for None, dict, list.
PyInt(x) ==
  CASE x.t = "int"   -> PInt(x.v)
    [] x.t = "bool"  -> PInt(IF x.b THEN 1 ELSE 0)
    [] x.t = "float" -> PInt(IF x.num >= 0 THEN x.num \div x.den
                                            ELSE -((-x.num) \div x.den))
    [] x.t = "str"   -> IntOfStr(x.s)
    [] OTHER         -> Raise

\* x.get(k, d): AttributeError when x is not a dict.
DictGet(x, k, d) ==
  IF x.t # "obj" THEN Raise
  ELSE IF k \in DOMAIN x.f THEN x.f[k] ELSE d

---------------------------------------------------------------------------
(* HTTP: the outcome of one requests.get / requests.post call.
     [kind |-> "neterr"]                         the call raised
     [kind |-> "resp", status |-> n, body |-> b]  b a JSON value or NotJson *)

NotJson == [t |-> "notjson"]

NetErr == [kind |-> "neterr"]

Resp(status, body) == [kind |-> "resp", status |-> status, body |-> body]

\* requests.get(...).json(): raises when the call raised or the body is no JSON.
\* The status code is never looked at.
Json(r) ==
  IF r.kind = "neterr" THEN Raise
  ELSE IF r.body.t = "notjson" THEN Raise ELSE r.body

---------------------------------------------------------------------------
(* get_fb_stable_stats *)

\* Step 1: page_token = auth_res.get("access_token") or token
FbAuthStep(token, r1) ==
  LET auth_res == Json(r1) IN
  IF IsRaise(auth_res) THEN Raise
  ELSE LET a == DictGet(auth_res, "access_token", None) IN
       IF IsRaise(a) THEN Raise ELSE PyOr(a, token)

\* Step 2: total_fans from followers_count or fan_count
FbPageStep(r2) ==
  LET p_res == Json(r2) IN
  IF IsRaise(p_res) THEN Raise
  ELSE LET fc == DictGet(p_res, "followers_count", None) IN
       IF IsRaise(fc) THEN Raise
       ELSE LET total_fans_v == PyOr(fc, DictGet(p_res, "fan_count", None)) IN
            IF IsIntOrFloat(total_fans_v) THEN PyInt(total_fans_v) ELSE None

\* post.get(field, {}).get("summary", {}).get("total_count", 0) or 0
TotalCount(post, field) ==
  LET a == DictGet(post, field, EmptyObj)
      b == IF IsRaise(a) THEN Raise ELSE DictGet(a, "summary", EmptyObj)
      c == IF IsRaise(b) THEN Raise ELSE DictGet(b, "total_count", PInt(0))
  IN  IF IsRaise(c) THEN Raise ELSE PyOr(c, PInt(0))

\* One pass of the loop body: int(r_count) + int(c_count), or Raise.
PostInteractions(post) ==
  LET r_count == TotalCount(post, "reactions")
      c_count == TotalCount(post, "comments")
  IN  IF IsRaise(r_count) \/ IsRaise(c_count) THEN Raise
      ELSE LET ri == PyInt(r_count)
               ci == PyInt(c_count)
           IN  IF IsRaise(ri) \/ IsRaise(ci) THEN Raise ELSE PInt(ri.v + ci.v)

\* The for loop: interaction_sum over the posts, or Raise.
RECURSIVE SumPosts(_)
SumPosts(posts) ==
  IF posts = <<>> THEN PInt(0)
  ELSE LET h == PostInteractions(Head(posts)) IN
       IF IsRaise(h) THEN Raise
       ELSE LET rest == SumPosts(Tail(posts)) IN
            IF IsRaise(rest) THEN Raise ELSE PInt(h.v + rest.v)

\* Step 3: interactions from the latest posts
FbPostsStep(r3) ==
  LET f_res == Json(r3) IN
  IF IsRaise(f_res) THEN Raise
  ELSE LET d == DictGet(f_res, "data", List(<<>>)) IN
       IF IsRaise(d) THEN Raise
       ELSE LET posts == PyOr(d, List(<<>>)) IN
            IF posts.t # "list" THEN Raise
            ELSE LET interaction_sum == SumPosts(posts.items)
                     has_any == posts.items # <<>>
                 IN  IF IsRaise(interaction_sum) THEN Raise
                     ELSE IF has_any THEN interaction_sum ELSE PInt(0)

\* The whole function: <<total_fans, interactions>>, <<None, None>> on any exception.
GetFbStableStats(page_id, token, r1, r2, r3) ==
  LET page_token == FbAuthStep(token, r1)
      total_fans == FbPageStep(r2)
      interactions == FbPostsStep(r3)
  IN  IF IsRaise(page_token) \/ IsRaise(total_fans) \/ IsRaise(interactions)
      THEN <<None, None>>
      ELSE <<total_fans, interactions>>

\* How many of the three GETs are issued before the function returns.
FbRequestsIssued(token, r1, r2, r3) ==
  IF IsRaise(FbAuthStep(token, r1)) THEN 1
  ELSE IF IsRaise(FbPageStep(r2)) THEN 2 ELSE 3

---------------------------------------------------------------------------
(* get_ig_insights *)

StrReach == <<"r", "e", "a", "c", "h">>

StrImpressions == <<"i", "m", "p", "r", "e", "s", "s", "i", "o", "n", "s">>

\* The for loop over data, carrying (reach, impr); Raise on an exception.
RECURSIVE IgLoop(_, _, _)
IgLoop(data, reach, impr) ==
  IF data = <<>> THEN <<reach, impr>>
  ELSE LET item == Head(data)
           name == DictGet(item, "name", None)
           vs == DictGet(item, "values", List(<<>>))
       IN  IF IsRaise(name) \/ IsRaise(vs) THEN <<Raise, Raise>>
           ELSE LET values == PyOr(vs, List(<<>>)) IN
                IF ~Truthy(values) THEN IgLoop(Tail(data), reach, impr)
                ELSE IF values.t # "list" THEN <<Raise, Raise>>
                ELSE LET v == DictGet(values.items[1], "value", None) IN
                     IF IsRaise(v) THEN <<Raise, Raise>>
                     ELSE LET reach2 == IF name = PStr(StrReach) /\ IsIntOrFloat(v)
                                        THEN PyInt(v) ELSE reach
                              impr2 == IF name = PStr(StrImpressions) /\ IsIntOrFloat(v)
                                       THEN PyInt(v) ELSE impr
                          IN  IgLoop(Tail(data), reach2, impr2)

\* The whole function: <<reach, impr>>, <<None, None>> on any exception.
GetIgInsights(ig_id, token, since, until, r) ==
  IF ~Truthy(ig_id) THEN <<None, None>>
  ELSE LET j == Json(r) IN
       IF IsRaise(j) THEN <<None, None>>
       ELSE LET d == DictGet(j, "data", List(<<>>)) IN
            IF IsRaise(d) THEN <<None, None>>
            ELSE LET data == PyOr(d, List(<<>>)) IN
                 IF data.t # "list" THEN <<None, None>>
                 ELSE LET out == IgLoop(data.items, None, None) IN
                      IF IsRaise(out[1]) THEN <<None, None>> ELSE out

---------------------------------------------------------------------------
(* ga4_yesterday.  o is what the outside does during the call:
     o.write   "ok" | "error"   opening/writing /tmp/ga4_sa.json
     o.client  "ok" | "error"   BetaAnalyticsDataClient()
     o.report  [kind |-> "error"] | [kind |-> "resp", rows |-> <<row, ...>>]
   a row being the sequence of its metric_values' .value strings. *)

\* int(row.metric_values[i].value): IndexError, ValueError -> Raise
RowMetric(row, i) ==
  IF i + 1 > Len(row) THEN Raise ELSE IntOfStr(row[i + 1])

\* [raised |-> TRUE, ...] when the call raises, else the returned triple.
Ga4Yesterday(property_id, credentials_json, since, until, o) ==
  LET none3 == <<None, None, None>> IN
  IF o.write = "error" \/ o.client = "error" \/ o.report.kind = "error"
  THEN [raised |-> TRUE, val |-> none3]
  ELSE IF o.report.rows = <<>> THEN [raised |-> FALSE, val |-> none3]
  ELSE LET row == o.report.rows[1]
           active_users == RowMetric(row, 0)
           total_users == RowMetric(row, 1)
           page_views == RowMetric(row, 2)
       IN  IF IsRaise(active_users) \/ IsRaise(total_users) \/ IsRaise(page_views)
           THEN [raised |-> TRUE, val |-> none3]
           ELSE [raised |-> FALSE, val |-> <<active_users, total_users, page_views>>]

\* How far the call gets: 0 nothing written, 1 file written, 2 the request sent.
Ga4Progress(o) ==
  IF o.write = "error" THEN 0 ELSE IF o.client = "error" THEN 1 ELSE 2

---------------------------------------------------------------------------
(* fmt *)

DigitChar == <<"0", "1", "2", "3", "4", "5", "6", "7", "8", "9">>

\* The decimal digits of n >= 0, grouped by thousands: format(n, ",")
RECURSIVE Grouped(_)
Grouped(n) ==
  IF n < 1000
  THEN IF n < 10 THEN <<DigitChar[n + 1]>>
       ELSE IF n < 100 THEN <<DigitChar[(n \div 10) + 1], DigitChar[(n % 10) + 1]>>
       ELSE <<DigitChar[(n \div 100) + 1], DigitChar[((n \div 10) % 10) + 1],
              DigitChar[(n % 10) + 1]>>
  ELSE Grouped(n \div 1000) \o
       <<",", DigitChar[((n \div 100) % 10) + 1], DigitChar[((n \div 10) % 10) + 1],
         DigitChar[(n % 10) + 1]>>

StrNA == <<"N", "/", "A">>

\* "N/A" if not n: a zero count rendered as absent.
FmtFalsy(n) ==
  IF n = None \/ n.v = 0 THEN StrNA
  ELSE IF n.v < 0 THEN <<"-">> \o Grouped(-n.v) ELSE Grouped(n.v)

\* fmt(n): "N/A" if n is None else f"{n:,}"
Fmt(n) ==
  IF n = None THEN StrNA
  ELSE IF n.v < 0 THEN <<"-">> \o Grouped(-n.v) ELSE Grouped(n.v)

---------------------------------------------------------------------------
(* Dates.  The clock counts whole hours of UTC since EpochDate 00:00 UTC. *)

Date(y, m, d) == [t |-> "date", year |-> y, month |-> m, day |-> d]

EpochDate == Date(2024, 12, 30)

TZ_TAIPEI == 8

IsLeap(y) == (y % 4 = 0 /\ y % 100 # 0) \/ y % 400 = 0

DaysInMonth(y, m) ==
  IF m = 2 THEN (IF IsLeap(y) THEN 29 ELSE 28)
  ELSE IF m \in {4, 6, 9, 11} THEN 30 ELSE 31

NextDay(d) ==
  IF d.day < DaysInMonth(d.year, d.month) THEN [d EXCEPT !.day = d.day + 1]
  ELSE IF d.month < 12 THEN Date(d.year, d.month + 1, 1)
  ELSE Date(d.year + 1, 1, 1)

\* d - timedelta(days=1)
PrevDay(d) ==
  IF d.day > 1 THEN [d EXCEPT !.day = d.day - 1]
  ELSE IF d.month > 1
       THEN Date(d.year, d.month - 1, DaysInMonth(d.year, d.month - 1))
  ELSE Date(d.year - 1, 12, 31)

RECURSIVE AddDays(_, _)
AddDays(d, k) == IF k = 0 THEN d ELSE AddDays(NextDay(d), k - 1)

\* datetime.now(TZ_TAIPEI).date() when the clock reads c
TaipeiDate(c) == AddDays(EpochDate, (c + TZ_TAIPEI) \div 24)

\* n in decimal, zero-padded to w digits
RECURSIVE Pad(_, _)
Pad(n, w) == IF w = 0 THEN <<>> ELSE Pad(n \div 10, w - 1) \o <<DigitChar[(n % 10) + 1]>>

\* ymd(d): d.isoformat()
ymd(d) == PStr(Pad(d.year, 4) \o <<"-">> \o Pad(d.month, 2) \o <<"-">> \o Pad(d.day, 2))

---------------------------------------------------------------------------
(* The message of main().  Fixed text is one piece per literal; everything
   interpolated is spelled character by character. *)

LblTitle == "[chart] 24h summary (per yesterday)"

LblDate == "date:"

LblFacebook == "Facebook"

LblFbFans == "- total followers:"

LblFbInteract == "- interactions of the latest five posts:"

LblInstagram == "Instagram"

LblIgReach == "- reach yesterday:"

LblIgImpr == "- impressions yesterday:"

LblGa4 == "Website (GA4)"

LblGaActive == "- active users:"

LblGaTotal == "- total users:"

LblGaViews == "- page views:"

NL == "\n"

Message(date, fans, interact, reach, impr, active, total, views) ==
  PStr(<<LblTitle, NL, LblDate>> \o date.s \o <<NL, NL,
    LblFacebook, NL,
    LblFbFans>> \o Fmt(fans) \o <<NL,
    LblFbInteract>> \o Fmt(interact) \o <<NL, NL,
    LblInstagram, NL,
    LblIgReach>> \o Fmt(reach) \o <<NL,
    LblIgImpr>> \o Fmt(impr) \o <<NL, NL,
    LblGa4, NL,
    LblGaActive>> \o Fmt(active) \o <<NL,
    LblGaTotal>> \o Fmt(total) \o <<NL,
    LblGaViews>> \o Fmt(views))

---------------------------------------------------------------------------
(* Inputs: what the environment and the providers may present. *)

\* Objects holding any subset of the keys, each with a value from vals.
ObjsOver(keys, vals) ==
  {Obj(f) : f \in UNION {[K -> vals] : K \in SUBSET keys}}

\* Sequences over S of length at most n.
SeqsUpTo(S, n) == UNION {[1..k -> S] : k \in 0..n}

MaxPosts == 2

MaxItems == 2

LastClock == 40

StartClocks == {39}

\* A Graph API error body: well-formed JSON without any data field.
ErrBody == Obj("error" :> PStr(<<"e">>))

\* JSON values a provider may put in a metric field.
MetricVals ==
  {PInt(0), PInt(7), PFloat(27, 10), PBool(TRUE), PStr(<<"1", "2">>), PStr(<<"x">>), None}

FbAuthResps ==
  {NetErr, Resp(200, NotJson), Resp(200, EmptyObj), Resp(500, ErrBody),
   Resp(200, Obj("access_token" :> PStr(<<"P">>)))}

FbPageBodies ==
  {Obj(f) : f \in UNION {[K -> MetricVals] : K \in SUBSET {"followers_count"}}}
  \cup {Obj(("followers_count" :> v) @@ ("fan_count" :> w)) :
          v \in MetricVals, w \in {PInt(5), PInt(0)}}
  \cup {Obj("fan_count" :> PInt(5))}

FbPageResps ==
  {NetErr, Resp(200, NotJson), Resp(200, List(<<>>)), Resp(500, ErrBody),
   Resp(500, Obj("followers_count" :> PInt(7)))}
  \cup {Resp(200, b) : b \in FbPageBodies}

CountVals == {PInt(3), PStr(<<"4">>), PStr(<<"x">>), None}

Summary(v) == Obj("summary" :> Obj("total_count" :> v))

ReactionVals == {None, EmptyObj, Obj("summary" :> EmptyObj)} \cup {Summary(v) : v \in CountVals}

Posts ==
  {Obj(f) : f \in UNION {[K -> ReactionVals] : K \in SUBSET {"reactions"}}}
  \cup {Obj(("reactions" :> r) @@ ("comments" :> Summary(PInt(2)))) : r \in ReactionVals}

FbPostsResps ==
  {NetErr, Resp(200, NotJson), Resp(200, EmptyObj), Resp(500, ErrBody),
   Resp(200, Obj("data" :> None)),
   Resp(500, Obj("data" :> List(<<Obj("reactions" :> Summary(PInt(3)))>>)))}
  \cup {Resp(200, Obj("data" :> List(ps))) : ps \in SeqsUpTo(Posts, MaxPosts)}

IgValues ==
  {List(<<>>), List(<<EmptyObj>>)} \cup {List(<<Obj("value" :> v)>>) : v \in MetricVals}

IgItems ==
  {None}
  \cup {Obj("name" :> PStr(n)) : n \in {StrReach, StrImpressions}}
  \cup {Obj(("name" :> PStr(n)) @@ ("values" :> vs)) :
          n \in {StrReach, StrImpressions}, vs \in IgValues}

IgResps ==
  {NetErr, Resp(200, NotJson), Resp(200, EmptyObj), Resp(500, ErrBody),
   Resp(200, Obj("data" :> None)),
   Resp(500, Obj("data" :> List(<<Obj(("name" :> PStr(StrReach)) @@
                                      ("values" :> List(<<Obj("value" :> PInt(7))>>)))>>)))}
  \cup {Resp(200, Obj("data" :> List(is))) : is \in SeqsUpTo(IgItems, MaxItems)}

Ga4Values == {<<"0">>, <<"1", "5", "0", "0">>, <<"1", ".", "5">>, <<"x">>}

Ga4Reports ==
  {[kind |-> "error"], [kind |-> "resp", rows |-> <<>>],
   [kind |-> "resp", rows |-> << <<(<<"7">>), (<<"8">>)>> >>]}
  \cup {[kind |-> "resp", rows |-> <<row>>] : row \in [1..3 -> Ga4Values]}

Ga4Outcomes ==
  {[write |-> "error", client |-> "ok", report |-> [kind |-> "error"]],
   [write |-> "ok", client |-> "error", report |-> [kind |-> "error"]]}
  \cup {[write |-> "ok", client |-> "ok", report |-> r] : r \in Ga4Reports}

\* What the providers answer during a whole run of main().
RunFbAuthResps ==
  {NetErr, Resp(500, ErrBody), Resp(200, Obj("access_token" :> PStr(<<"P">>)))}

RunFbPageResps ==
  {NetErr, Resp(500, ErrBody), Resp(200, Obj("followers_count" :> PInt(1234567))),
   Resp(200, Obj("fan_count" :> PFloat(9999, 10)))}

RunFbPostsResps ==
  {NetErr, Resp(200, EmptyObj),
   Resp(200, Obj("data" :> List(<<Obj(("reactions" :> Summary(PInt(3))) @@
                                     ("comments" :> Summary(PInt(2))))>>)))}

IgItem(n, v) == Obj(("name" :> PStr(n)) @@ ("values" :> List(<<Obj("value" :> v)>>)))

RunIgResps ==
  {NetErr, Resp(500, ErrBody),
   Resp(200, Obj("data" :> List(<<IgItem(StrReach, PInt(0))>>))),
   Resp(200, Obj("data" :> List(<<IgItem(StrImpressions, PInt(1000))>>))),
   Resp(200, Obj("data" :> List(<<IgItem(StrReach, PInt(-1234)),
                                  IgItem(StrImpressions, PStr(<<"7">>))>>))),
   Resp(200, Obj("data" :> List(<<IgItem(StrReach, PInt(1234)),
                                  IgItem(StrImpressions, PInt(999))>>)))}

RunGa4Outcomes ==
  {[write |-> "error", client |-> "ok", report |-> [kind |-> "error"]],
   [write |-> "ok", client |-> "error", report |-> [kind |-> "error"]],
   [write |-> "ok", client |-> "ok", report |-> [kind |-> "error"]],
   [write |-> "ok", client |-> "ok", report |-> [kind |-> "resp", rows |-> <<>>]],
   [write |-> "ok", client |-> "ok", report |->
      [kind |-> "resp", rows |-> << <<(<<"0">>), (<<"1", "5", "0", "0">>), (<<"x">>)>> >>]],
   [write |-> "ok", client |-> "ok", report |->
      [kind |-> "resp",
       rows |-> << <<(<<"0">>), (<<"1", "5", "0", "0">>),
                     (<<"1", "2", "3", "4", "5", "6", "7", "8">>)>> >>]]}

PushOutcomes ==
  {NetErr, Resp(200, NotJson), Resp(204, NotJson), Resp(403, NotJson), Resp(500, NotJson)}

EnvNames ==
  {"LINE_CHANNEL_ACCESS_TOKEN", "LINE_TO_ID", "META_ACCESS_TOKEN", "FB_PAGE_ID",
   "IG_USER_ID", "GA4_PROPERTY_ID", "GA4_CREDENTIALS_JSON"}

\* Every variable is unset, set to the empty string, or set to a value.
Environments == UNION {[K -> {PStr(<<>>), PStr(<<"v">>)}] : K \in SUBSET EnvNames}

---------------------------------------------------------------------------
(* State *)

VARIABLES
  environ,      \* os.environ: a function from the names that are set
  clock,        \* hours of UTC since EpochDate
  cred_file,    \* the content of /tmp/ga4_sa.json, Unbound while not written
  calls,        \* the network calls issued so far, in order
  pc,           \* where main() stands
  error,        \* which statement raised out of main(): "" while none did
  line_token, line_to, meta_token, fb_page_id, ig_user_id,
  ga4_property_id, ga4_credentials_json,
  today_tw, yday, since, until,
  fb_fans, fb_interact, ig_reach, ig_impr, ga_active, ga_total, ga_views,
  msg,
  push_r,       \* what requests.post gave line_push: Unbound before the call
  now_at,       \* the clock reading datetime.now returned
  fetched,      \* the fetchers main() has called
  fWho, fIn, fOut   \* one fetcher applied on its own: which, to what, its result

envVars == <<environ, cred_file>>

cfgVars == <<meta_token, fb_page_id, ig_user_id, ga4_property_id, ga4_credentials_json>>

lineVars == <<line_token, line_to>>

dateVars == <<today_tw, yday, since, until, now_at>>

fbVars == <<fb_fans, fb_interact>>

igVars == <<ig_reach, ig_impr>>

gaVars == <<ga_active, ga_total, ga_views>>

fnVars == <<fWho, fIn, fOut>>

vars == <<environ, clock, cred_file, calls, pc, error, lineVars, cfgVars, dateVars,
          fbVars, igVars, gaVars, msg, push_r, fetched, fnVars>>

\* A local that is not bound yet.
Unbound == [t |-> "unbound"]

cred_path == PStr(<<"/tmp/ga4_sa.json">>)

\* os.environ.get(name, "")
Getenv(name) == IF name \in DOMAIN environ THEN environ[name] ELSE PStr(<<>>)

\* One entry of the network log.
Call(method, api, id, token, s, u, text) ==
  [method |-> method, api |-> api, id |-> id, token |-> token,
   since |-> s, until |-> u, text |-> text]

LocalsUnbound ==
  /\ line_token = Unbound /\ line_to = Unbound
  /\ meta_token = Unbound /\ fb_page_id = Unbound /\ ig_user_id = Unbound
  /\ ga4_property_id = Unbound /\ ga4_credentials_json = Unbound
  /\ today_tw = Unbound /\ yday = Unbound /\ since = Unbound /\ until = Unbound
  /\ now_at = -1
  /\ fb_fans = Unbound /\ fb_interact = Unbound
  /\ ig_reach = Unbound /\ ig_impr = Unbound
  /\ ga_active = Unbound /\ ga_total = Unbound /\ ga_views = Unbound
  /\ msg = Unbound
  /\ push_r = Unbound

Init ==
  /\ environ \in Environments
  /\ clock \in StartClocks
  /\ cred_file = Unbound
  /\ calls = <<>>
  /\ pc = "start"
  /\ error = ""
  /\ fetched = {}
  /\ LocalsUnbound
  /\ fWho = "none" /\ fIn = <<>> /\ fOut = <<>>

---------------------------------------------------------------------------
(* main() *)

\* A check that needs both credentials gone before it objects.
MissingLineBoth(tok, to) == ~Truthy(tok) /\ ~Truthy(to)

\* not line_token or not line_to
MissingLine(tok, to) == ~Truthy(tok) \/ ~Truthy(to)

\* Reading the LINE credentials and the check on them.
CheckLine ==
  /\ pc = "start"
  /\ line_token' = Getenv("LINE_CHANNEL_ACCESS_TOKEN")
  /\ line_to' = Getenv("LINE_TO_ID")
  /\ IF MissingLine(line_token', line_to')
     THEN pc' = "raised" /\ error' = "config"
     ELSE pc' = "config" /\ error' = error
  /\ UNCHANGED <<envVars, clock, calls, cfgVars, dateVars, fbVars, igVars, gaVars,
                 msg, push_r, fetched, fnVars>>

\* A window that is today instead of the day before.
YesterdayIsToday(today) == today

\* today_tw - timedelta(days=1)
Yesterday(today) == PrevDay(today)

\* Reading the provider configuration and computing the date window.
ReadConfig ==
  /\ pc = "config"
  /\ meta_token' = Getenv("META_ACCESS_TOKEN")
  /\ fb_page_id' = Getenv("FB_PAGE_ID")
  /\ ig_user_id' = Getenv("IG_USER_ID")
  /\ ga4_property_id' = Getenv("GA4_PROPERTY_ID")
  /\ ga4_credentials_json' = Getenv("GA4_CREDENTIALS_JSON")
  /\ now_at' = clock
  /\ today_tw' = TaipeiDate(clock)
  /\ yday' = Yesterday(today_tw')
  /\ since' = ymd(yday')
  /\ until' = ymd(yday')
  /\ pc' = "fb"
  /\ UNCHANGED <<envVars, clock, calls, error, lineVars, fbVars, igVars, gaVars,
                 msg, push_r, fetched, fnVars>>

\* A gate that forgets the access token.
FbGateNoToken == Truthy(fb_page_id)

\* if meta_token and fb_page_id
FbGate == Truthy(meta_token) /\ Truthy(fb_page_id)

FbSkip ==
  /\ pc = "fb"
  /\ ~FbGate
  /\ fb_fans' = None /\ fb_interact' = None
  /\ pc' = "ig"
  /\ UNCHANGED <<envVars, clock, calls, error, lineVars, cfgVars, dateVars, igVars,
                 gaVars, msg, push_r, fetched, fnVars>>

FbFetch ==
  /\ pc = "fb"
  /\ FbGate
  /\ \E r1 \in RunFbAuthResps, r2 \in RunFbPageResps, r3 \in RunFbPostsResps :
       LET out == GetFbStableStats(fb_page_id, meta_token, r1, r2, r3)
           page_token == FbAuthStep(meta_token, r1)
           gets == <<Call("GET", "fb_auth", fb_page_id, meta_token, None, None, None),
                     Call("GET", "fb_page", fb_page_id, page_token, None, None, None),
                     Call("GET", "fb_posts", fb_page_id, page_token, None, None, None)>>
       IN  /\ fb_fans' = out[1]
           /\ fb_interact' = out[2]
           /\ calls' = calls \o SubSeq(gets, 1, FbRequestsIssued(meta_token, r1, r2, r3))
  /\ fetched' = fetched \cup {"fb"}
  /\ pc' = "ig"
  /\ UNCHANGED <<envVars, clock, error, lineVars, cfgVars, dateVars, igVars, gaVars,
                 msg, push_r, fnVars>>

\* if meta_token and ig_user_id
IgGate == Truthy(meta_token) /\ Truthy(ig_user_id)

IgSkip ==
  /\ pc = "ig"
  /\ ~IgGate
  /\ ig_reach' = None /\ ig_impr' = None
  /\ pc' = "ga4"
  /\ UNCHANGED <<envVars, clock, calls, error, lineVars, cfgVars, dateVars, fbVars,
                 gaVars, msg, push_r, fetched, fnVars>>

\* get_ig_insights(ig_user_id, meta_token, s, u) called from main()
IgFetchWith(s, u) ==
  /\ pc = "ig"
  /\ IgGate
  /\ \E r \in RunIgResps :
       LET out == GetIgInsights(ig_user_id, meta_token, s, u, r) IN
       /\ ig_reach' = out[1]
       /\ ig_impr' = out[2]
  /\ calls' = Append(calls, Call("GET", "ig_insights", ig_user_id, meta_token, s, u, None))
  /\ fetched' = fetched \cup {"ig"}
  /\ pc' = "ga4"
  /\ UNCHANGED <<envVars, clock, error, lineVars, cfgVars, dateVars, fbVars, gaVars,
                 msg, push_r, fnVars>>

\* A call that works out yesterday again at the moment of the fetch.
IgFetchRecomputed == IgFetchWith(ymd(PrevDay(TaipeiDate(clock))), ymd(PrevDay(TaipeiDate(clock))))

IgFetch == IgFetchWith(since, until)

\* if ga4_property_id and ga4_credentials_json
Ga4Gate == Truthy(ga4_property_id) /\ Truthy(ga4_credentials_json)

Ga4Skip ==
  /\ pc = "ga4"
  /\ ~Ga4Gate
  /\ ga_active' = None /\ ga_total' = None /\ ga_views' = None
  /\ pc' = "msg"
  /\ UNCHANGED <<envVars, clock, calls, error, lineVars, cfgVars, dateVars, fbVars,
                 igVars, msg, push_r, fetched, fnVars>>

\* ga4_yesterday is called outside any try: what it raises leaves main().
Ga4Fetch ==
  /\ pc = "ga4"
  /\ Ga4Gate
  /\ \E o \in RunGa4Outcomes :
       LET res == Ga4Yesterday(ga4_property_id, ga4_credentials_json, since, until, o)
           progress == Ga4Progress(o)
       IN  /\ cred_file' = IF progress >= 1 THEN ga4_credentials_json ELSE cred_file
           /\ environ' = IF progress >= 1
                         THEN ("GOOGLE_APPLICATION_CREDENTIALS" :> cred_path) @@ environ
                         ELSE environ
           /\ calls' = IF progress >= 2
                       THEN Append(calls, Call("RPC", "ga4_run_report", ga4_property_id,
                                               None, since, until, None))
                       ELSE calls
           /\ ga_active' = res.val[1]
           /\ ga_total' = res.val[2]
           /\ ga_views' = res.val[3]
           /\ IF res.raised THEN pc' = "raised" /\ error' = "ga4"
                            ELSE pc' = "msg" /\ error' = error
  /\ fetched' = fetched \cup {"ga4"}
  /\ UNCHANGED <<clock, lineVars, cfgVars, dateVars, fbVars, igVars, msg, push_r, fnVars>>

BuildMsg ==
  /\ pc = "msg"
  /\ msg' = Message(since, fb_fans, fb_interact, ig_reach, ig_impr,
                    ga_active, ga_total, ga_views)
  /\ pc' = "push"
  /\ UNCHANGED <<envVars, clock, calls, error, lineVars, cfgVars, dateVars, fbVars,
                 igVars, gaVars, push_r, fetched, fnVars>>

\* A check that lets every client error through as if delivered.
PushRaisesOn5xx(r) == r.kind = "neterr" \/ r.status >= 500

\* line_push raises: requests.post raised, or r.status_code != 200
PushRaises(r) == r.kind = "neterr" \/ r.status # 200

\* line_push(line_token, line_to, msg): one POST, no retry
LinePush ==
  /\ pc = "push"
  /\ calls' = Append(calls, Call("POST", "line_push", line_to, line_token, None, None, msg))
  /\ \E r \in PushOutcomes :
       /\ push_r' = r
       /\ IF PushRaises(r) THEN pc' = "raised" /\ error' = "push"
                           ELSE pc' = "done" /\ error' = error
  /\ UNCHANGED <<envVars, clock, lineVars, cfgVars, dateVars, fbVars, igVars, gaVars,
                 msg, fetched, fnVars>>

\* Time passes while main() runs.
Tick ==
  /\ pc \notin {"done", "raised"}
  /\ clock < LastClock
  /\ clock' = clock + 1
  /\ UNCHANGED <<envVars, calls, pc, error, lineVars, cfgVars, dateVars, fbVars,
                 igVars, gaVars, msg, push_r, fetched, fnVars>>

Next ==
  \/ CheckLine \/ ReadConfig
  \/ FbSkip \/ FbFetch
  \/ IgSkip \/ IgFetch
  \/ Ga4Skip \/ Ga4Fetch
  \/ BuildMsg \/ LinePush
  \/ Tick

Spec == Init /\ [][Next]_vars

---------------------------------------------------------------------------
(* Each fetcher on its own, applied to any of the provider answers. *)

mainVars == <<environ, clock, cred_file, calls, pc, error, lineVars, cfgVars, dateVars,
              fbVars, igVars, gaVars, msg, push_r, fetched>>

ArgDate == ymd(EpochDate)

InitFetch ==
  /\ environ = <<>>
  /\ clock \in StartClocks
  /\ cred_file = Unbound
  /\ calls = <<>>
  /\ pc = "start"
  /\ error = ""
  /\ fetched = {}
  /\ LocalsUnbound
  /\ fWho = "none" /\ fIn = Unbound /\ fOut = Unbound

ApplyFb ==
  /\ fWho = "none"
  /\ \E r1 \in FbAuthResps, r2 \in FbPageResps, r3 \in FbPostsResps :
       /\ fIn' = [r1 |-> r1, r2 |-> r2, r3 |-> r3]
       /\ fOut' = [raised |-> FALSE,
                   val |-> GetFbStableStats(PStr(<<"v">>), PStr(<<"v">>), r1, r2, r3)]
  /\ fWho' = "fb"
  /\ UNCHANGED mainVars

ApplyIg ==
  /\ fWho = "none"
  /\ \E ig_id \in {PStr(<<>>), PStr(<<"v">>)}, r \in IgResps :
       /\ fIn' = [ig_id |-> ig_id, r |-> r]
       /\ fOut' = [raised |-> FALSE,
                   val |-> GetIgInsights(ig_id, PStr(<<"v">>), ArgDate, ArgDate, r)]
  /\ fWho' = "ig"
  /\ UNCHANGED mainVars

ApplyGa4 ==
  /\ fWho = "none"
  /\ \E o \in Ga4Outcomes :
       /\ fIn' = [o |-> o]
       /\ fOut' = Ga4Yesterday(PStr(<<"v">>), PStr(<<"v">>), ArgDate, ArgDate, o)
  /\ fWho' = "ga4"
  /\ UNCHANGED mainVars

NextFetch == ApplyFb \/ ApplyIg \/ ApplyGa4

SpecFetch == InitFetch /\ [][NextFetch]_vars

---------------------------------------------------------------------------
(* Properties of a run of main() *)

Present(name) == Truthy(Getenv(name))

LineCredentialsMissing ==
  ~Present("LINE_CHANNEL_ACCESS_TOKEN") \/ ~Present("LINE_TO_ID")

Ended == pc \in {"done", "raised"}

PushCalls == {i \in DOMAIN calls : calls[i].api = "line_push"}

CallsTo(apis) == {i \in DOMAIN calls : calls[i].api \in apis}

FbApis == {"fb_auth", "fb_page", "fb_posts"}

\* How far main() has come: the number of its stages that are over.
Stage ==
  CASE pc = "start" -> 0
    [] pc = "config" -> 1
    [] pc = "fb" -> 2
    [] pc = "ig" -> 3
    [] pc = "ga4" -> 4
    [] pc = "msg" -> 5
    [] pc = "push" -> 6
    [] pc = "done" -> 7
    [] pc = "raised" -> (IF error = "config" THEN 1 ELSE IF error = "ga4" THEN 5 ELSE 7)

\* The position of the first x in seq, 0 when there is none.
IndexOf(seq, x) ==
  IF \E i \in DOMAIN seq : seq[i] = x
  THEN CHOOSE i \in DOMAIN seq : seq[i] = x /\ \A j \in 1..(i - 1) : seq[j] # x
  ELSE 0

\* What a message shows after a label, up to the end of the line.
SlotOf(m, label) ==
  LET i == IndexOf(m, label)
      rest == SubSeq(m, i + 1, Len(m))
      j == IndexOf(rest, NL)
  IN  IF j = 0 THEN rest ELSE SubSeq(rest, 1, j - 1)

\* C4: when LINE_CHANNEL_ACCESS_TOKEN or LINE_TO_ID is empty or unset, main()
\* raises the configuration error as its first step: no network call is ever
\* issued, no fetcher is called and the credential file is never written,
\* whatever the other variables hold.
C4_NoCallBeforeConfigError ==
  LineCredentialsMissing =>
    /\ pc \in {"start", "raised"}
    /\ pc = "raised" => error = "config"
    /\ calls = <<>>
    /\ fetched = {}
    /\ cred_file = Unbound
    /\ push_r = Unbound

C4_Witness ==
  /\ pc = "raised" /\ error = "config"
  /\ "LINE_TO_ID" \notin DOMAIN environ
  /\ Present("LINE_CHANNEL_ACCESS_TOKEN")
  /\ Present("META_ACCESS_TOKEN") /\ Present("FB_PAGE_ID") /\ Present("IG_USER_ID")
  /\ Present("GA4_PROPERTY_ID") /\ Present("GA4_CREDENTIALS_JSON")

\* C5: a run that reaches the push issues exactly one POST to the push endpoint,
\* after every fetcher has returned and the message is built, as its last
\* network call and carrying that message; any outcome other than status 200
\* ends the run with the push error and no second POST, status 200 ends it
\* without error; before the push step no POST is issued.
C5_OnePushLast ==
  /\ Stage < 7 => PushCalls = {} /\ push_r = Unbound
  /\ Stage = 7 =>
       /\ Cardinality(PushCalls) = 1
       /\ calls[Len(calls)].api = "line_push"
       /\ calls[Len(calls)].method = "POST"
       /\ calls[Len(calls)].text = msg
       /\ msg # Unbound
       /\ \A v \in {fb_fans, fb_interact, ig_reach, ig_impr, ga_active, ga_total, ga_views} :
            v # Unbound
       /\ push_r # Unbound
       /\ (push_r.kind = "resp" /\ push_r.status = 200) <=> pc = "done"
       /\ ~(push_r.kind = "resp" /\ push_r.status = 200) <=> (pc = "raised" /\ error = "push")

C5_Witness ==
  /\ pc = "raised" /\ error = "push"
  /\ push_r # Unbound /\ push_r.kind = "resp" /\ push_r.status = 403
  /\ fetched = {"fb", "ig", "ga4"}
  /\ Len(calls) = 6

\* C6: a fetcher is called exactly when both of its credentials are non-empty
\* (FB: META_ACCESS_TOKEN, FB_PAGE_ID; IG: META_ACCESS_TOKEN, IG_USER_ID; GA4:
\* GA4_PROPERTY_ID, GA4_CREDENTIALS_JSON), each decided by its own two variables
\* alone; a provider that is skipped issues no request, leaves its metrics None
\* and shows "N/A" in every one of its slots of the message.
C6_GatedFetchers ==
  /\ Stage >= 3 => ("fb" \in fetched <=> (Present("META_ACCESS_TOKEN") /\ Present("FB_PAGE_ID")))
  /\ Stage >= 4 => ("ig" \in fetched <=> (Present("META_ACCESS_TOKEN") /\ Present("IG_USER_ID")))
  /\ Stage >= 5 =>
       ("ga4" \in fetched <=> (Present("GA4_PROPERTY_ID") /\ Present("GA4_CREDENTIALS_JSON")))
  /\ "fb" \notin fetched =>
       /\ CallsTo(FbApis) = {}
       /\ Stage >= 3 => fb_fans = None /\ fb_interact = None
       /\ msg # Unbound =>
            SlotOf(msg.s, LblFbFans) = StrNA /\ SlotOf(msg.s, LblFbInteract) = StrNA
  /\ "ig" \notin fetched =>
       /\ CallsTo({"ig_insights"}) = {}
       /\ Stage >= 4 => ig_reach = None /\ ig_impr = None
       /\ msg # Unbound =>
            SlotOf(msg.s, LblIgReach) = StrNA /\ SlotOf(msg.s, LblIgImpr) = StrNA
  /\ "ga4" \notin fetched =>
       /\ CallsTo({"ga4_run_report"}) = {}
       /\ cred_file = Unbound
       /\ Stage >= 5 => ga_active = None /\ ga_total = None /\ ga_views = None
       /\ msg # Unbound =>
            /\ SlotOf(msg.s, LblGaActive) = StrNA
            /\ SlotOf(msg.s, LblGaTotal) = StrNA
            /\ SlotOf(msg.s, LblGaViews) = StrNA

C6_Witness ==
  /\ pc = "done"
  /\ ~Present("META_ACCESS_TOKEN") /\ Present("FB_PAGE_ID") /\ Present("IG_USER_ID")
  /\ fetched = {"ga4"}
  /\ ga_total = PInt(1500)
  /\ SlotOf(msg.s, LblFbFans) = StrNA
  /\ SlotOf(msg.s, LblGaTotal) = <<"1", ",", "5", "0", "0">>

Labels ==
  <<LblTitle, LblDate, LblFacebook, LblFbFans, LblFbInteract, LblInstagram,
    LblIgReach, LblIgImpr, LblGa4, LblGaActive, LblGaTotal, LblGaViews>>

Occurrences(m, x) == Cardinality({i \in DOMAIN m : m[i] = x})

NotComma(c) == c # ","

\* slot is n >= 0 in decimal without leading zeros, a comma before every
\* group of three digits counted from the right and nowhere else; a negative
\* n is a minus sign before the rendering of -n.
IsGroupedDecimal(slot, n) ==
  LET body == IF n < 0 THEN Tail(slot) ELSE slot
      digits == SelectSeq(body, NotComma)
  IN  /\ n < 0 => slot[1] = "-"
      /\ body # <<>> /\ body[1] # ","
      /\ \A i \in DOMAIN body : (body[i] = ",") <=> ((Len(body) - i + 1) % 4 = 0)
      /\ IsDigits(digits)
      /\ DigitsValue(digits) = (IF n < 0 THEN -n ELSE n)
      /\ Len(digits) > 1 => digits[1] # "0"

\* The slot shows v: "N/A" for None, the grouped decimal for an int.
Renders(slot, v) ==
  IF v = None THEN slot = StrNA
  ELSE /\ v.t = "int"
       /\ slot # StrNA
       /\ IsGroupedDecimal(slot, v.v)
       /\ v.v = 0 => slot = <<"0">>

\* C9: the message main() builds holds every section label and metric label
\* exactly once, in the fixed order title, date, Facebook (followers,
\* interactions), Instagram (reach, impressions), GA4 (active users, total
\* users, page views), whichever metrics are present; each of the seven slots
\* shows "N/A" when its metric is None and the grouped decimal of its value
\* otherwise, so a present 0 shows "0".
C9_MessageLayout ==
  msg # Unbound =>
    /\ \A i \in DOMAIN Labels : Occurrences(msg.s, Labels[i]) = 1
    /\ \A i \in 1..(Len(Labels) - 1) :
         IndexOf(msg.s, Labels[i]) < IndexOf(msg.s, Labels[i + 1])
    /\ Renders(SlotOf(msg.s, LblFbFans), fb_fans)
    /\ Renders(SlotOf(msg.s, LblFbInteract), fb_interact)
    /\ Renders(SlotOf(msg.s, LblIgReach), ig_reach)
    /\ Renders(SlotOf(msg.s, LblIgImpr), ig_impr)
    /\ Renders(SlotOf(msg.s, LblGaActive), ga_active)
    /\ Renders(SlotOf(msg.s, LblGaTotal), ga_total)
    /\ Renders(SlotOf(msg.s, LblGaViews), ga_views)

C9_Witness ==
  /\ msg # Unbound
  /\ fb_fans = PInt(1234567) /\ fb_interact = PInt(0)
  /\ ig_reach = None /\ ig_impr = PInt(1000)
  /\ ga_active = PInt(0) /\ ga_total = PInt(1500) /\ ga_views = PInt(12345678)
  /\ SlotOf(msg.s, LblGaViews) = <<"1", "2", ",", "3", "4", "5", ",", "6", "7", "8">>

\* The date an ISO string  yyyy-mm-dd  spells.
ParseYmd(s) ==
  Date(DigitsValue(SubSeq(s, 1, 4)), DigitsValue(SubSeq(s, 6, 7)),
       DigitsValue(SubSeq(s, 9, 10)))

\* The UTC+8 calendar day, counted from EpochDate, of clock reading c.
TaipeiDayNumber(c) == (c + 8) \div 24

\* C10: once computed, since and until are equal and spell the day before the
\* UTC+8 date of the moment datetime.now was read; every Instagram and GA4
\* request carries exactly this pair and the message's date line shows it,
\* however far the clock has moved on since.
C10_OneSharedWindow ==
  since # Unbound =>
    /\ since = until
    /\ since.t = "str" /\ Len(since.s) = 10
    /\ since.s[5] = "-" /\ since.s[8] = "-"
    /\ AddDays(ParseYmd(since.s), 1) = AddDays(EpochDate, TaipeiDayNumber(now_at))
    /\ \A i \in CallsTo({"ig_insights", "ga4_run_report"}) :
         calls[i].since = since /\ calls[i].until = until
    /\ msg # Unbound => SlotOf(msg.s, LblDate) = since.s

C10_Witness ==
  /\ pc = "done"
  /\ fetched = {"fb", "ig", "ga4"}
  /\ TaipeiDayNumber(clock) > TaipeiDayNumber(now_at)
  /\ \E i \in CallsTo({"ig_insights"}) : calls[i].since = since
  /\ \E i \in CallsTo({"ga4_run_report"}) : calls[i].until = until
  /\ since.s = <<"2", "0", "2", "4", "-", "1", "2", "-", "3", "0">>

\* C1: no provider fetch error ends the run: with the LINE credentials
\* present, main() raises only from the push, and a run that has ended has
\* issued the POST of line_push.
C1_FetchErrorNeverAborts ==
  (Ended /\ ~LineCredentialsMissing) =>
    /\ pc = "raised" => error = "push"
    /\ PushCalls # {}

---------------------------------------------------------------------------
(* Properties of the fetchers *)

\* The answer is a response whose body is a JSON object.
OkObj(r) == r.kind = "resp" /\ r.body.t = "obj"

Non200(r) == r.kind = "resp" /\ r.status # 200

NoneNone == <<None, None>>

\* A JSON number: an integer or a float, not a boolean.
IsJsonNumber(x) == x.t \in {"int", "float"}

\* A JSON number cut to its integer part.
Truncated(x) ==
  IF x.t = "int" THEN x.v
  ELSE IF x.num >= 0 THEN x.num \div x.den ELSE -((-x.num) \div x.den)

\* The post carries no total_count under field.
LacksCount(post, field) ==
  \/ field \notin DOMAIN post.f
  \/ /\ post.f[field].t = "obj"
     /\ \/ "summary" \notin DOMAIN post.f[field].f
        \/ /\ post.f[field].f["summary"].t = "obj"
           /\ "total_count" \notin DOMAIN post.f[field].f["summary"].f

\* The posts answer carries no interaction count at all: no "data" field, an
\* empty list, or only posts without reactions/comments summaries.
InteractionsMissing(r3) ==
  /\ OkObj(r3)
  /\ \/ "data" \notin DOMAIN r3.body.f
     \/ /\ r3.body.f["data"].t = "list"
        /\ \A i \in DOMAIN r3.body.f["data"].items :
             LET post == r3.body.f["data"].items[i] IN
             /\ post.t = "obj"
             /\ LacksCount(post, "reactions")
             /\ LacksCount(post, "comments")

FansMissing(r2) ==
  /\ OkObj(r2)
  /\ "followers_count" \notin DOMAIN r2.body.f
  /\ "fan_count" \notin DOMAIN r2.body.f

\* C2: a metric whose field is missing from the provider's answer is None,
\* never 0: the Facebook followers and interactions slots, both Instagram
\* slots when the answer has no "data", all three GA4 slots when there are no
\* rows.
C2_MissingIsAbsent ==
  /\ fWho = "fb" =>
       /\ FansMissing(fIn.r2) => fOut.val[1] = None
       /\ InteractionsMissing(fIn.r3) => fOut.val[2] = None
  /\ (fWho = "ig" /\ OkObj(fIn.r) /\ "data" \notin DOMAIN fIn.r.body.f)
       => fOut.val = NoneNone
  /\ (fWho = "ga4" /\ Ga4Progress(fIn.o) = 2 /\ fIn.o.report.kind = "resp"
        /\ fIn.o.report.rows = <<>>)
       => (~fOut.raised /\ fOut.val = <<None, None, None>>)

\* C3: a fetcher whose request is answered with a status other than 200
\* returns None in every slot, whatever the body.
C3_Non200AllAbsent ==
  /\ (fWho = "fb" /\ (Non200(fIn.r1) \/ Non200(fIn.r2) \/ Non200(fIn.r3)))
       => fOut.val = NoneNone
  /\ (fWho = "ig" /\ Non200(fIn.r)) => fOut.val = NoneNone

\* The Instagram answer is a 200 whose data is a list of objects.
IgWellFormed(r) ==
  /\ OkObj(r) /\ r.status = 200
  /\ "data" \in DOMAIN r.body.f
  /\ r.body.f["data"].t = "list"
  /\ \A i \in DOMAIN r.body.f["data"].items : r.body.f["data"].items[i].t = "obj"

IgData(r) == r.body.f["data"].items

\* Item i is the only item named n and carries a value.
IgSoleValue(items, i, n) ==
  /\ DictGet(items[i], "name", None) = PStr(n)
  /\ \A j \in DOMAIN items : j # i => DictGet(items[j], "name", None) # PStr(n)
  /\ "values" \in DOMAIN items[i].f
  /\ items[i].f["values"].items # <<>>
  /\ "value" \in DOMAIN items[i].f["values"].items[1].f

IgValue(items, i) == items[i].f["values"].items[1].f["value"]

\* C7: a metric the provider returned is reported whatever happens to the
\* other metric of the same call: Instagram reach and impressions are each
\* reported from their own item, and the Facebook follower count read from the
\* page answer is reported even when the posts request fails.
C7_PartialSuccessKept ==
  /\ (fWho = "ig" /\ Truthy(fIn.ig_id) /\ IgWellFormed(fIn.r)) =>
       \A i \in DOMAIN IgData(fIn.r) :
         /\ (IgSoleValue(IgData(fIn.r), i, StrReach)
               /\ IsJsonNumber(IgValue(IgData(fIn.r), i)))
              => fOut.val[1] = PInt(Truncated(IgValue(IgData(fIn.r), i)))
         /\ (IgSoleValue(IgData(fIn.r), i, StrImpressions)
               /\ IsJsonNumber(IgValue(IgData(fIn.r), i)))
              => fOut.val[2] = PInt(Truncated(IgValue(IgData(fIn.r), i)))
  /\ (fWho = "fb" /\ ~IsRaise(FbAuthStep(PStr(<<"v">>), fIn.r1))
        /\ FbPageStep(fIn.r2).t = "int")
       => fOut.val[1] = FbPageStep(fIn.r2)

\* C8: every metric field is coerced alike: a JSON integer or float gives the
\* number cut to an integer, 0 included; a value of any other JSON type gives
\* None.  Stated for followers_count (all three Facebook requests answered
\* with objects and none of them raising) and for reach and impressions.
C8_UniformCoercion ==
  /\ (fWho = "fb" /\ OkObj(fIn.r1) /\ OkObj(fIn.r2) /\ OkObj(fIn.r3)
        /\ ~IsRaise(FbPostsStep(fIn.r3))
        /\ "followers_count" \in DOMAIN fIn.r2.body.f) =>
       LET v == fIn.r2.body.f["followers_count"] IN
       /\ IsJsonNumber(v) => fOut.val[1] = PInt(Truncated(v))
       /\ (~IsJsonNumber(v) /\ "fan_count" \notin DOMAIN fIn.r2.body.f)
            => fOut.val[1] = None
  /\ (fWho = "ig" /\ Truthy(fIn.ig_id) /\ IgWellFormed(fIn.r)) =>
       \A i \in DOMAIN IgData(fIn.r) :
         LET v == IgValue(IgData(fIn.r), i) IN
         /\ IgSoleValue(IgData(fIn.r), i, StrReach) =>
              fOut.val[1] = (IF IsJsonNumber(v) THEN PInt(Truncated(v)) ELSE None)
         /\ IgSoleValue(IgData(fIn.r), i, StrImpressions) =>
              fOut.val[2] = (IF IsJsonNumber(v) THEN PInt(Truncated(v)) ELSE None)

===========================================================================
